---- MODULE Spec2Model ----
(***************************************************************************)
(* Model of src/memalign.c: aligned_malloc / aligned_free on top of        *)
(* malloc / free.                                                          *)
(*                                                                         *)
(* The machine word (size_t, uintptr_t) is SIZE_BITS wide and all          *)
(* arithmetic on it is taken modulo 2^SIZE_BITS, as C does for unsigned    *)
(* types.  offset_t keeps its 16 bits and hdr_size its 32 bits.  The       *)
(* word is narrower than on a real target so that addresses can be         *)
(* enumerated; the arithmetic of the code does not depend on the width.    *)
(* The build is either a debug build (assert active) or an NDEBUG build    *)
(* (assert compiled out).                                                  *)
(***************************************************************************)
EXTENDS Integers, Sequences, FiniteSets, TLC

\* ------------------------------------------------------------------ bounds
\* width of size_t / uintptr_t of the modelled target
SIZE_BITS == 18
\* raw addresses are taken within MaxSkew bytes of the anchor addresses
MaxSkew == 32
\* the same, for the two-thread specification
ConcSkew == 1

\* ------------------------------------------------------- program constants
\* typedef uint16_t offset_t
OFFSET_BITS == 16
\* #define PTR_OFFSET_SZ sizeof(offset_t)
PTR_OFFSET_SZ == 2
\* uint32_t hdr_size
HDR_SIZE_BITS == 32
NULL == 0

Threads == {1, 2}

\* 2^SIZE_BITS: one past the largest size_t / uintptr_t
SIZE_MOD == 2 ^ SIZE_BITS
OFFSET_MOD == 2 ^ OFFSET_BITS
HalfSpace == 2 ^ (SIZE_BITS - 1)

\* ------------------------------------------------------ machine arithmetic
\* unsigned addition and subtraction in size_t / uintptr_t
AddW(x, y) == (x + y) % SIZE_MOD
SubW(x, y) == (x + SIZE_MOD - y) % SIZE_MOD

RECURSIVE BitAnd(_, _)
\* x & y
BitAnd(x, y) ==
    IF x = 0 \/ y = 0 THEN 0
    ELSE (x % 2) * (y % 2) + 2 * BitAnd(x \div 2, y \div 2)

\* ~x in size_t
BitNot(x) == (SIZE_MOD - 1) - x

\* conversion of a size_t value to an unsigned type of `bits` bits: the
\* identity when that type is at least as wide as size_t
ToUnsigned(x, bits) == IF bits >= SIZE_BITS THEN x ELSE x % (2 ^ bits)

\* align_up with the mask ~(align) in place of ~((align) - 1)
align_up_wrongmask(num, a) == BitAnd(AddW(num, SubW(a, 1)), BitNot(a))
\* #define align_up(num, align) (((num) + ((align) - 1)) & ~((align) - 1))
align_up(num, a) == BitAnd(AddW(num, SubW(a, 1)), BitNot(SubW(a, 1)))

\* the asserted condition of line 59: (align & (align - 1)) == 0
AssertAlign(a) == BitAnd(a, SubW(a, 1)) = 0

\* the test of line 61 without its size operand
ArgsOk_sizeunchecked(a, s) == a # 0
\* if(align && size)
ArgsOk(a, s) == a # 0 /\ s # 0

\* the test of line 70 left out
PtrOk_unchecked(q) == TRUE
\* if(p)
PtrOk(q) == q # NULL

\* uint32_t hdr_size = PTR_OFFSET_SZ + (align - 1)
HdrSize(a) == ToUnsigned(AddW(PTR_OFFSET_SZ, SubW(a, 1)), HDR_SIZE_BITS)

\* the argument of malloc: size + hdr_size, converted to size_t
MallocArg(a, s) == AddW(s, HdrSize(a))

\* (offset_t)((uintptr_t)ptr - (uintptr_t)p)
OffsetOf(q, raw) == ToUnsigned(SubW(q, raw), OFFSET_BITS)

\* address of ((offset_t *)ptr - 1)
HeaderAddr(q) == SubW(q, PTR_OFFSET_SZ)

\* the bytes of the offset_t stored at HeaderAddr(q)
HeaderBytes(q) == {HeaderAddr(q), AddW(HeaderAddr(q), 1)}

\* ------------------------------------------------------------------ inputs
\* alignments passed to aligned_malloc: the ones of the demonstration, the
\* powers of two up to a page, zero, a non power of two, the first power of
\* two whose offset no longer fits offset_t, and the largest power of two
Aligns == {0, 1, 2, 4, 6, 8, 16, 32, 64, 4096, OFFSET_MOD \div 2, OFFSET_MOD, HalfSpace}
\* sizes passed to aligned_malloc, up to the largest size_t
Sizes == {0, 1, 7, 8, 10, 100, 1000, 1035, HalfSpace, SIZE_MOD - 1}
\* the requests of the two-thread specification
ConcAligns == {4, OFFSET_MOD, HalfSpace}
ConcSizes == {8, HalfSpace}

\* addresses around which malloc places blocks
Anchors == {0, 4096, OFFSET_MOD, HalfSpace, SIZE_MOD}
ConcAnchors == {4096, OFFSET_MOD, HalfSpace}
Near(anchors, skew) ==
    {x \in UNION {{a - d, a + d} : a \in anchors, d \in 0..skew} :
        x >= 1 /\ x <= SIZE_MOD - 1}

\* what a read of memory that was never written may yield
GarbageOffsets == {0, PTR_OFFSET_SZ, OFFSET_MOD - 1}

\* ------------------------------------------------------------------- state
VARIABLES
    NDEBUG,      \* build configuration: TRUE when assert is compiled out
    halted,      \* "no", "abort" (assert failed) or "fault" (invalid access)
    pc,          \* pc[t]: position of thread t
    align,       \* align[t], size[t]: arguments of aligned_malloc
    size,
    nbytes,      \* nbytes[t]: the argument thread t passed to malloc
    p,           \* p[t]: what malloc returned (local p of aligned_malloc)
    ptr,         \* ptr[t]: local ptr of aligned_malloc
    result,      \* result[t]: the pointer the caller holds
    offset,      \* offset[t]: local offset of aligned_free
    freed,       \* freed[t]: the addresses thread t passed to free, in order
    heap,        \* the live blocks of the underlying allocator
    mem,         \* the bytes written so far: address -> byte
    mallocCalls, \* mallocCalls[t]: calls of malloc by thread t
    hdrWrites,   \* hdrWrites[t]: the byte addresses thread t stored to
    hdrReads     \* hdrReads[t]: header reads by thread t

vars == <<NDEBUG, halted, pc, align, size, nbytes, p, ptr, result, offset,
          freed, heap, mem, mallocCalls, hdrWrites, hdrReads>>

\* -------------------------------------------------- the underlying allocator
BlockLen(n) == IF n = 0 THEN 1 ELSE n
Block(b, n) == [base |-> b, len |-> BlockLen(n)]
Disjoint(b1, n1, b2, n2) == b1 + n1 <= b2 \/ b2 + n2 <= b1

\* the addresses malloc(n) may return: the block lies in the address space
\* and overlaps no live block
MallocCandidates(bases, n) ==
    {b \in bases :
        /\ b + BlockLen(n) <= SIZE_MOD
        /\ \A blk \in heap : Disjoint(b, BlockLen(n), blk.base, blk.len)}

\* ------------------------------------------------------------------ memory
Written(a) == a \in DOMAIN mem
\* *((offset_t *)q - 1) = v, least significant byte first
StoreHeader(q, v) ==
    [a \in DOMAIN mem \cup HeaderBytes(q) |->
        IF a = HeaderAddr(q) THEN v % 256
        ELSE IF a = AddW(HeaderAddr(q), 1) THEN v \div 256
        ELSE mem[a]]
\* the values *((offset_t *)q - 1) may yield
LoadHeader(q) ==
    IF \A a \in HeaderBytes(q) : Written(a)
    THEN {mem[HeaderAddr(q)] + 256 * mem[AddW(HeaderAddr(q), 1)]}
    ELSE GarbageOffsets

Init ==
    /\ NDEBUG \in BOOLEAN
    /\ halted = "no"
    /\ pc = [t \in Threads |-> "start"]
    /\ align = [t \in Threads |-> 0]
    /\ size = [t \in Threads |-> 0]
    /\ nbytes = [t \in Threads |-> 0]
    /\ p = [t \in Threads |-> NULL]
    /\ ptr = [t \in Threads |-> NULL]
    /\ result = [t \in Threads |-> NULL]
    /\ offset = [t \in Threads |-> 0]
    /\ freed = [t \in Threads |-> <<>>]
    /\ heap = {}
    /\ mem = <<>>
    /\ mallocCalls = [t \in Threads |-> 0]
    /\ hdrWrites = [t \in Threads |-> {}]
    /\ hdrReads = [t \in Threads |-> 0]

\* ------------------------------------------------------------ aligned_malloc
\* lines 54-61: entry, the assert and the test of the arguments
aligned_malloc_enter(t, a, s) ==
    /\ halted = "no"
    /\ pc[t] = "start"
    /\ align' = [align EXCEPT ![t] = a]
    /\ size' = [size EXCEPT ![t] = s]
    /\ IF ~NDEBUG /\ ~AssertAlign(a)
       THEN /\ halted' = "abort"
            /\ pc' = [pc EXCEPT ![t] = "aborted"]
       ELSE /\ halted' = halted
            /\ pc' = [pc EXCEPT ![t] = IF ArgsOk(a, s) THEN "am_malloc" ELSE "am_return"]
    /\ UNCHANGED <<NDEBUG, nbytes, p, ptr, result, offset, freed, heap, mem,
                   mallocCalls, hdrWrites, hdrReads>>

\* lines 67-68: void * p = malloc(size + hdr_size)
aligned_malloc_alloc(t, bases) ==
    /\ halted = "no"
    /\ pc[t] = "am_malloc"
    /\ LET n == MallocArg(align[t], size[t]) IN
        /\ nbytes' = [nbytes EXCEPT ![t] = n]
        /\ \/ /\ p' = [p EXCEPT ![t] = NULL]
              /\ heap' = heap
           \/ \E b \in MallocCandidates(bases, n) :
                /\ p' = [p EXCEPT ![t] = b]
                /\ heap' = heap \cup {Block(b, n)}
    /\ mallocCalls' = [mallocCalls EXCEPT ![t] = @ + 1]
    /\ pc' = [pc EXCEPT ![t] = "am_store"]
    /\ UNCHANGED <<NDEBUG, halted, align, size, ptr, result, offset, freed, mem,
                   hdrWrites, hdrReads>>

\* lines 70-80: align the pointer and store the offset behind it
aligned_malloc_store(t) ==
    /\ halted = "no"
    /\ pc[t] = "am_store"
    /\ IF PtrOk(p[t])
       THEN LET q == align_up(AddW(p[t], PTR_OFFSET_SZ), align[t]) IN
            /\ ptr' = [ptr EXCEPT ![t] = q]
            /\ mem' = StoreHeader(q, OffsetOf(q, p[t]))
            /\ hdrWrites' = [hdrWrites EXCEPT ![t] = @ \cup HeaderBytes(q)]
       ELSE UNCHANGED <<ptr, mem, hdrWrites>>
    /\ pc' = [pc EXCEPT ![t] = "am_return"]
    /\ UNCHANGED <<NDEBUG, halted, align, size, nbytes, p, result, offset, freed,
                   heap, mallocCalls, hdrReads>>

\* line 83: return ptr
aligned_malloc_return(t) ==
    /\ halted = "no"
    /\ pc[t] = "am_return"
    /\ result' = [result EXCEPT ![t] = ptr[t]]
    /\ pc' = [pc EXCEPT ![t] = "allocated"]
    /\ UNCHANGED <<NDEBUG, halted, align, size, nbytes, p, ptr, offset, freed,
                   heap, mem, mallocCalls, hdrWrites, hdrReads>>

\* -------------------------------------------------------------- aligned_free
\* lines 91-93: the caller releases the pointer it holds (the demonstration
\* does so without testing it), assert(ptr)
aligned_free_enter(t) ==
    /\ halted = "no"
    /\ pc[t] = "allocated"
    /\ IF ~NDEBUG /\ result[t] = NULL
       THEN /\ halted' = "abort"
            /\ pc' = [pc EXCEPT ![t] = "aborted"]
       ELSE /\ halted' = halted
            /\ pc' = [pc EXCEPT ![t] = "af_read"]
    /\ UNCHANGED <<NDEBUG, align, size, nbytes, p, ptr, result, offset, freed,
                   heap, mem, mallocCalls, hdrWrites, hdrReads>>

\* line 99: offset_t offset = *((offset_t *)ptr - 1); a read behind the null
\* pointer is undefined: it faults or yields what lies there
aligned_free_read(t) ==
    /\ halted = "no"
    /\ pc[t] = "af_read"
    /\ \/ /\ \E v \in LoadHeader(result[t]) : offset' = [offset EXCEPT ![t] = v]
          /\ hdrReads' = [hdrReads EXCEPT ![t] = @ + 1]
          /\ pc' = [pc EXCEPT ![t] = "af_free"]
          /\ halted' = halted
       \/ /\ result[t] = NULL
          /\ halted' = "fault"
          /\ pc' = [pc EXCEPT ![t] = "faulted"]
          /\ UNCHANGED <<offset, hdrReads>>
    /\ UNCHANGED <<NDEBUG, align, size, nbytes, p, ptr, result, freed, heap, mem,
                   mallocCalls, hdrWrites>>

\* lines 104-105: p = (uint8_t *)ptr - offset; free(p).  free(NULL) does
\* nothing; free of an address that is no live block is undefined: the heap
\* is left as it is or the program faults
aligned_free_free(t) ==
    /\ halted = "no"
    /\ pc[t] = "af_free"
    /\ LET raw == SubW(result[t], offset[t]) IN
        /\ freed' = [freed EXCEPT ![t] = Append(@, raw)]
        /\ IF \E blk \in heap : blk.base = raw
           THEN /\ heap' = {blk \in heap : blk.base # raw}
                /\ halted' = halted
                /\ pc' = [pc EXCEPT ![t] = "released"]
           ELSE /\ heap' = heap
                /\ \/ /\ halted' = halted
                      /\ pc' = [pc EXCEPT ![t] = "released"]
                   \/ /\ raw # NULL
                      /\ halted' = "fault"
                      /\ pc' = [pc EXCEPT ![t] = "faulted"]
    /\ UNCHANGED <<NDEBUG, align, size, nbytes, p, ptr, result, offset, mem,
                   mallocCalls, hdrWrites, hdrReads>>

\* ---------------------------------------------------------- specifications
\* one thread, every request and every raw address of the bounded sets
Next ==
    \/ \E a \in Aligns, s \in Sizes : aligned_malloc_enter(1, a, s)
    \/ aligned_malloc_alloc(1, Near(Anchors, MaxSkew))
    \/ aligned_malloc_store(1)
    \/ aligned_malloc_return(1)
    \/ aligned_free_enter(1)
    \/ aligned_free_read(1)
    \/ aligned_free_free(1)

Spec == Init /\ [][Next]_vars

\* two threads over one heap, their steps interleaved
NextConc ==
    \E t \in Threads :
        \/ \E a \in ConcAligns, s \in ConcSizes : aligned_malloc_enter(t, a, s)
        \/ aligned_malloc_alloc(t, Near(ConcAnchors, ConcSkew))
        \/ aligned_malloc_store(t)
        \/ aligned_malloc_return(t)
        \/ aligned_free_enter(t)
        \/ aligned_free_read(t)
        \/ aligned_free_free(t)

SpecConc == Init /\ [][NextConc]_vars

\* ------------------------------------------------------------------ claims
\* a is a nonzero power of two
IsPow2(a) == \E k \in 0..(SIZE_BITS - 1) : a = 2 ^ k
\* the request satisfies the preconditions of allocate
ValidRequest(t) == IsPow2(align[t]) /\ size[t] > 0
\* thread t holds its allocation: aligned_malloc stored the header and the
\* release has not yet called free
Holding(t) == pc[t] \in {"am_return", "allocated", "af_read", "af_free"}

TestAligns == {1, 2, 4, 8, 16, 32, 64, 4096}
TestSizes == {1, 7, 100, 1000, 1035}

\* C1: for the alignments 1..64 and 4096 and the sizes 1, 7, 100, 1000 and
\* 1035, whatever raw address malloc returned, a successful aligned_malloc
\* returns a non-null pointer whose address is a multiple of the alignment.
C1_Aligned ==
    \A t \in Threads :
        (/\ pc[t] = "allocated"
         /\ align[t] \in TestAligns
         /\ size[t] \in TestSizes
         /\ p[t] # NULL)
        => (result[t] # NULL /\ result[t] % align[t] = 0)

\* a page-aligned allocation was returned and the pointer had to be moved up
C1_Witness ==
    /\ pc[1] = "allocated"
    /\ align[1] = 4096
    /\ size[1] = 1035
    /\ p[1] # NULL
    /\ result[1] - p[1] > PTR_OFFSET_SZ

\* C2: round trip: after aligned_free of the pointer of a valid request, the
\* offset read from the header is aligned - raw and free received exactly
\* the raw address malloc returned.
C2_RoundTrip ==
    \A t \in Threads :
        (pc[t] = "released" /\ ValidRequest(t) /\ p[t] # NULL)
        => (offset[t] = result[t] - p[t] /\ freed[t] = <<p[t]>>)

\* C3: aligned_malloc with a nonzero alignment that is no power of two
\* never returns a pointer, in either build.
C3_RejectsNonPow2 ==
    \A t \in Threads :
        (pc[t] = "allocated" /\ align[t] # 0 /\ ~IsPow2(align[t]))
        => result[t] = NULL

C5_MallocFailure ==
    \A t \in Threads :
        (mallocCalls[t] > 0 /\ p[t] = NULL)
        => /\ mallocCalls[t] = 1
           /\ pc[t] # "am_malloc"
           /\ hdrWrites[t] = {}
           /\ ptr[t] = NULL
           /\ result[t] = NULL

\* a valid request whose malloc failed has returned
C5_Witness ==
    /\ pc[1] = "allocated"
    /\ align[1] = 8
    /\ size[1] = 100
    /\ mallocCalls[1] = 1
    /\ p[1] = NULL
    /\ result[1] = NULL

\* C6: after a successful aligned_malloc of a valid request the returned
\* pointer lies in [raw + PTR_OFFSET_SZ, raw + PTR_OFFSET_SZ + (align - 1)].
C6_OffsetRange ==
    \A t \in Threads :
        (pc[t] = "allocated" /\ ValidRequest(t) /\ p[t] # NULL)
        => /\ PTR_OFFSET_SZ <= result[t] - p[t]
           /\ result[t] - p[t] <= PTR_OFFSET_SZ + (align[t] - 1)

\* C7: two threads that both hold a pointer returned by aligned_malloc hold
\* disjoint ranges [pointer, pointer + size), and no thread's header bytes
\* lie in the live raw block of the other.
C7_NoOverlap ==
    \A t \in Threads : \A u \in Threads \ {t} :
        /\ (/\ pc[t] = "allocated" /\ pc[u] = "allocated"
            /\ result[t] # NULL /\ result[u] # NULL)
           => Disjoint(result[t], size[t], result[u], size[u])
        /\ (Holding(t) /\ Holding(u) /\ p[u] # NULL)
           => \A a \in hdrWrites[t] :
                a < p[u] \/ a >= p[u] + BlockLen(nbytes[u])

\* C8: the raw block of an allocation stays live until the release of its
\* own pointer, and that release passes exactly this raw block to free, once.
C8_Lifecycle ==
    \A t \in Threads :
        /\ (Holding(t) /\ p[t] # NULL) => \E blk \in heap : blk.base = p[t]
        /\ (pc[t] = "released" /\ result[t] # NULL /\ ValidRequest(t))
           => freed[t] = <<p[t]>>

\* C9: aligned_free of a null pointer reads no header and calls free not
\* at all.
C9_NullRelease ==
    \A t \in Threads :
        (pc[t] \in {"af_read", "af_free", "released", "faulted", "aborted"}
            /\ result[t] = NULL)
        => (hdrReads[t] = 0 /\ freed[t] = <<>>)

\* C10: for a valid request the argument of malloc is exactly
\* size + PTR_OFFSET_SZ + (align - 1).
C10_PaddedRequest ==
    \A t \in Threads :
        (mallocCalls[t] > 0 /\ ValidRequest(t))
        => nbytes[t] = size[t] + PTR_OFFSET_SZ + (align[t] - 1)

====
